---- MODULE Spec2Model ----
(***************************************************************************)
(* A model of the llm-chat backend fragment:                               *)
(*   - the ownership-scoped list endpoints                                 *)
(*       backend/views/conversations/list.py  list_my_conversations        *)
(*       backend/views/messages/list.py       list_my_messages             *)
(*   - the tag schemas  app_chats/schemas/tags.py                          *)
(*   - the test database fixture  conftest.py  use_test_database           *)
(* Three specifications share the variables: Spec (the list endpoints),    *)
(* TagSpec (schema construction) and TestSpec (the test suite's fixture).  *)
(***************************************************************************)
EXTENDS Integers, Sequences, FiniteSets, TLC

VARIABLES
    \* ---- the store and the request in flight (list endpoints)
    User,           \* the registered users (ids)
    Conversation,   \* the Conversation table, rows in storage order
    Message,        \* the Message table, rows in storage order
    pc,             \* where the request in flight is
    request,        \* the request in flight
    entered,        \* the handler body the request in flight entered
    response,       \* the response to the request in flight
    \* ---- tag schemas
    tag,            \* the stored tag
    built,          \* the outcome of the last schema construction
    \* ---- test suite
    phase,          \* "between" tests or inside a "test"
    DATABASES,      \* the active settings.DATABASES
    base,           \* settings.DATABASES of the settings object under every override
    overridden,     \* an override of the settings fixture is active
    steps,          \* how many times the running test's body wrote the settings
    changed         \* some test body so far wrote settings.DATABASES

listVars == <<User, Conversation, Message, pc, request, entered, response>>
tagVars  == <<tag, built>>
testVars == <<phase, DATABASES, base, overridden, steps, changed>>
vars == <<User, Conversation, Message, pc, request, entered, response,
          tag, built, phase, DATABASES, base, overridden, steps, changed>>

(***************************************************************************)
(* Bounds                                                                  *)
(***************************************************************************)
NumUsers == 2
MaxConversations == 3
MaxMessages == 3
MaxBodySteps == 2

Range(s) == {s[i] : i \in DOMAIN s}

(***************************************************************************)
(* The list endpoints                                                      *)
(***************************************************************************)
\* response={200: ...}: the only outcome the handlers declare
OK == 200
\* the authentication collaborator's failure outcome
Unauthorized == 401

NoUser == 0
UserIds == 1..NumUsers
\* what a client can put in a request: credentials (NoUser: none or invalid,
\* u: a valid credential of user u) and a scope it names itself (NoUser: none)
Credentials == {NoUser} \cup UserIds
ClientScope == {NoUser} \cup UserIds
Endpoints == {"conversations", "messages"}

NoRequest == [endpoint |-> "none", credentials |-> NoUser, scope |-> NoUser, user |-> NoUser]
NoResponse == [status |-> 0, body |-> <<>>]

\* Faulty variants of the query: no owner filter; the owner taken from the
\* client's scope when it names one.
ConversationsWrongFilter(req) ==
    SelectSeq(Conversation, LAMBDA row : TRUE)
ConversationsClientScope(req) ==
    SelectSeq(Conversation,
              LAMBDA row : row.owner = IF req.scope # NoUser THEN req.scope ELSE req.user)
\* Conversation.objects.filter(owner=request.user)
ConversationQuery(req) ==
    SelectSeq(Conversation, LAMBDA row : row.owner = req.user)

\* The join Message.conversation -> Conversation.owner
OwnerOfConversation(c) ==
    (CHOOSE row \in Range(Conversation) : row.id = c).owner

\* Faulty variants of the query, as for conversations.
MessagesWrongFilter(req) ==
    SelectSeq(Message, LAMBDA row : TRUE)
MessagesClientScope(req) ==
    SelectSeq(Message,
              LAMBDA row : OwnerOfConversation(row.conversation)
                             = IF req.scope # NoUser THEN req.scope ELSE req.user)
\* Message.objects.filter(conversation__owner=request.user)
MessageQuery(req) ==
    SelectSeq(Message, LAMBDA row : OwnerOfConversation(row.conversation) = req.user)

\* ---- the store's writers (other endpoints of the application)
CreateUser ==
    /\ Cardinality(User) < NumUsers
    /\ User' = User \cup {Cardinality(User) + 1}
    /\ UNCHANGED <<Conversation, Message, pc, request, entered, response>>
    /\ UNCHANGED <<tagVars, testVars>>

CreateConversation ==
    /\ Len(Conversation) < MaxConversations
    /\ \E u \in User :
         Conversation' = Append(Conversation, [id |-> Len(Conversation) + 1, owner |-> u])
    /\ UNCHANGED <<User, Message, pc, request, entered, response>>
    /\ UNCHANGED <<tagVars, testVars>>

CreateMessage ==
    /\ Len(Message) < MaxMessages
    /\ \E c \in Range(Conversation) :
         Message' = Append(Message, [id |-> Len(Message) + 1, conversation |-> c.id])
    /\ UNCHANGED <<User, Conversation, pc, request, entered, response>>
    /\ UNCHANGED <<tagVars, testVars>>

\* ---- a request
Receive ==
    /\ pc = "idle"
    /\ \E e \in Endpoints, c \in Credentials, s \in ClientScope :
         request' = [endpoint |-> e, credentials |-> c, scope |-> s, user |-> NoUser]
    /\ pc' = "received"
    /\ entered' = "none"
    /\ response' = NoResponse
    /\ UNCHANGED <<User, Conversation, Message>>
    /\ UNCHANGED <<tagVars, testVars>>

\* The authentication collaborator, upstream of the handlers: a request with a
\* valid credential gets request.user, any other ends here.
Authenticates(req) == req.credentials \in User

Authenticate ==
    /\ pc = "received"
    /\ IF Authenticates(request)
         THEN /\ request' = [request EXCEPT !.user = request.credentials]
              /\ pc' = "authenticated"
              /\ UNCHANGED response
         ELSE /\ response' = [status |-> Unauthorized, body |-> <<>>]
              /\ pc' = "done"
              /\ UNCHANGED request
    /\ UNCHANGED <<User, Conversation, Message, entered>>
    /\ UNCHANGED <<tagVars, testVars>>

\* Faulty variants of list_my_conversations: registered with auth=None;
\* answering an empty result with an error; writing to the store
\* (get_or_create).
list_my_conversations_no_auth ==
    /\ pc \in {"received", "authenticated"}
    /\ request.endpoint = "conversations"
    /\ entered' = "list_my_conversations"
    /\ response' = [status |-> OK, body |-> ConversationQuery(request)]
    /\ pc' = "done"
    /\ UNCHANGED <<User, Conversation, Message, request>>
    /\ UNCHANGED <<tagVars, testVars>>
list_my_conversations_or_404 ==
    /\ pc = "authenticated"
    /\ request.endpoint = "conversations"
    /\ entered' = "list_my_conversations"
    /\ response' = IF ConversationQuery(request) = <<>>
                     THEN [status |-> 404, body |-> <<>>]
                     ELSE [status |-> OK, body |-> ConversationQuery(request)]
    /\ pc' = "done"
    /\ UNCHANGED <<User, Conversation, Message, request>>
    /\ UNCHANGED <<tagVars, testVars>>
list_my_conversations_get_or_create ==
    /\ pc = "authenticated"
    /\ request.endpoint = "conversations"
    /\ entered' = "list_my_conversations"
    /\ Conversation' = IF ConversationQuery(request) = <<>> /\ Len(Conversation) < MaxConversations
                         THEN Append(Conversation, [id |-> Len(Conversation) + 1,
                                                    owner |-> request.user])
                         ELSE Conversation
    /\ response' = [status |-> OK, body |-> ConversationQuery(request)]
    /\ pc' = "done"
    /\ UNCHANGED <<User, Message, request>>
    /\ UNCHANGED <<tagVars, testVars>>

list_my_conversations ==
    /\ pc = "authenticated"
    /\ request.endpoint = "conversations"
    /\ entered' = "list_my_conversations"
    /\ response' = [status |-> OK, body |-> ConversationQuery(request)]
    /\ pc' = "done"
    /\ UNCHANGED <<User, Conversation, Message, request>>
    /\ UNCHANGED <<tagVars, testVars>>

list_my_messages ==
    /\ pc = "authenticated"
    /\ request.endpoint = "messages"
    /\ entered' = "list_my_messages"
    /\ response' = [status |-> OK, body |-> MessageQuery(request)]
    /\ pc' = "done"
    /\ UNCHANGED <<User, Conversation, Message, request>>
    /\ UNCHANGED <<tagVars, testVars>>

\* the response leaves; the worker takes the next request
Respond ==
    /\ pc = "done"
    /\ pc' = "idle"
    /\ request' = NoRequest
    /\ entered' = "none"
    /\ response' = NoResponse
    /\ UNCHANGED <<User, Conversation, Message>>
    /\ UNCHANGED <<tagVars, testVars>>


(***************************************************************************)
(* The tag schemas                                                         *)
(***************************************************************************)
Rep(c, n) == [i \in 1..n |-> c]
Digits == {"0", "1", "2", "3", "4", "5", "6", "7", "8", "9"}
HexDigits == Digits \cup {"a", "b", "c", "d", "e", "f", "A", "B", "C", "D", "E", "F"}
Lower(c) ==
    CASE c = "A" -> "a" [] c = "B" -> "b" [] c = "C" -> "c"
      [] c = "D" -> "d" [] c = "E" -> "e" [] c = "F" -> "f" [] OTHER -> c
LowerAll(cs) == [i \in DOMAIN cs |-> Lower(cs[i])]
AllHex(cs) == \A i \in DOMAIN cs : cs[i] \in HexDigits

\* A raw field value as a client sends it: a string (t = "str"), a number
\* (t = "int", its digits) or null (t = "none").
Raw(t, cs) == [t |-> t, v |-> cs]

\* uuid.UUID as a field type: a string of 32 hex digits, or the hyphenated
\* 8-4-4-4-12 form; the value is the 32 digits, lower case.
HyphenAt == {9, 14, 19, 24}
IsUUIDString(cs) ==
    \/ Len(cs) = 32 /\ AllHex(cs)
    \/ /\ Len(cs) = 36
       /\ \A i \in DOMAIN cs : IF i \in HyphenAt THEN cs[i] = "-" ELSE cs[i] \in HexDigits
ParseUUID(cs) == LowerAll(SelectSeq(cs, LAMBDA c : c # "-"))

\* pydantic_extra_types.color.Color: a colour name, or 3, 4, 6 or 8 hex digits
\* after an optional "#" or "0x", in any case; the value is its hex digits in
\* full, lower case.
ColorsByName ==
    [red |-> <<"f", "f", "0", "0", "0", "0">>, blue |-> <<"0", "0", "0", "0", "f", "f">>]
NameOf(cs) ==
    CASE cs = <<"r", "e", "d">> -> "red"
      [] cs = <<"b", "l", "u", "e">> -> "blue"
      [] OTHER -> "none"
HexPart(cs) ==
    IF Len(cs) >= 1 /\ cs[1] = "#" THEN Tail(cs)
    ELSE IF Len(cs) >= 2 /\ cs[1] = "0" /\ cs[2] = "x" THEN Tail(Tail(cs))
    ELSE cs
IsColorString(cs) ==
    \/ NameOf(LowerAll(cs)) # "none"
    \/ Len(HexPart(LowerAll(cs))) \in {3, 4, 6, 8} /\ AllHex(HexPart(LowerAll(cs)))
ParseColor(cs) ==
    LET low == LowerAll(cs)
        hex == HexPart(low)
    IN  IF NameOf(low) # "none" THEN ColorsByName[NameOf(low)]
        ELSE IF Len(hex) \in {3, 4}
               THEN [i \in 1..(2 * Len(hex)) |-> hex[(i + 1) \div 2]]
               ELSE hex

\* validation of one field against its declared type
Valid(type, raw) ==
    CASE type = "UUID"  -> raw.t = "str" /\ IsUUIDString(raw.v)
      [] type = "str"   -> raw.t = "str"
      [] type = "Color" -> raw.t = "str" /\ IsColorString(raw.v)
Parse(type, raw) ==
    CASE type = "UUID"  -> ParseUUID(raw.v)
      [] type = "str"   -> raw.v
      [] type = "Color" -> ParseColor(raw.v)

\* The three shapes: each field with its declared type. (Faulty variants: a
\* TagSchema whose color is a plain str, an UpdateTagSchema that declares id.)
TagSchema_color_unvalidated == [id |-> "UUID", title |-> "str", color |-> "str"]
TagSchema == [id |-> "UUID", title |-> "str", color |-> "Color"]
NewTagSchema == [id |-> "UUID", title |-> "str", color |-> "Color"]
UpdateTagSchema_with_id == [id |-> "UUID", title |-> "str", color |-> "Color"]
UpdateTagSchema == [title |-> "str", color |-> "Color"]

SchemaNames == {"TagSchema", "NewTagSchema", "UpdateTagSchema"}
Declared(schema) ==
    CASE schema = "TagSchema" -> TagSchema
      [] schema = "NewTagSchema" -> NewTagSchema
      [] schema = "UpdateTagSchema" -> UpdateTagSchema

\* what the base Schema does with a field the shape does not declare
ExtraPolicies == {"ignore", "forbid"}

NotBuilt == [schema |-> "none", input |-> <<>>, ok |-> FALSE, instance |-> <<>>]

\* Schema(**input): every declared field is required and validated; the
\* instance holds the declared fields only.
Construct(schema, input, extra) ==
    LET decl == Declared(schema)
        missing == DOMAIN decl \ DOMAIN input
        invalid == {f \in DOMAIN decl \cap DOMAIN input : ~Valid(decl[f], input[f])}
        extras == DOMAIN input \ DOMAIN decl
        ok == missing = {} /\ invalid = {} /\ (extra = "forbid" => extras = {})
    IN  [schema |-> schema, input |-> input, ok |-> ok,
         instance |-> IF ok THEN [f \in DOMAIN decl |-> Parse(decl[f], input[f])]
                            ELSE <<>>]

\* ---- the inputs tried
IdSamples ==
    { Raw("str", Rep("a", 8) \o <<"-">> \o Rep("1", 4) \o <<"-">> \o Rep("4", 4)
                   \o <<"-">> \o Rep("8", 4) \o <<"-">> \o Rep("c", 12)),
      Raw("str", Rep("B", 32)),
      Raw("str", Rep("a", 8) \o Rep("-", 4) \o Rep("1", 24)),
      Raw("str", Rep("g", 32)),
      Raw("str", Rep("a", 31)),
      Raw("int", <<"7">>) }
TitleSamples == { Raw("str", <<"t">>), Raw("str", <<>>), Raw("int", <<"7">>) }
ColorSamples ==
    { Raw("str", <<"r", "e", "d">>),
      Raw("str", <<"#", "F", "f", "0">>),
      Raw("str", <<"0", "x", "1", "2", "3", "4", "5", "6">>),
      Raw("str", <<"#", "f", "f">>),
      Raw("str", <<"#", "g", "g", "g">>),
      Raw("str", <<"r", "e", "d", "d">>),
      Raw("none", <<>>) }
FieldNames == {"id", "title", "color"}
SamplesOf(f) ==
    CASE f = "id" -> IdSamples [] f = "title" -> TitleSamples [] f = "color" -> ColorSamples
\* every payload: any subset of the field names, each with any sample
Inputs ==
    UNION { { payload \in [fs -> IdSamples \cup TitleSamples \cup ColorSamples] :
                \A f \in fs : payload[f] \in SamplesOf(f) } : fs \in SUBSET FieldNames }

\* a payload arrives and the shape is constructed from it
Build ==
    /\ built = NotBuilt
    /\ \E schema \in SchemaNames, input \in Inputs, extra \in ExtraPolicies :
         built' = Construct(schema, input, extra)
    /\ UNCHANGED tag
    /\ UNCHANGED <<listVars, testVars>>

\* the tag's lifecycle: created from a creation payload, updated in place from
\* an update payload, field by field
CreateTag ==
    /\ tag = <<>>
    /\ built.ok /\ built.schema = "NewTagSchema"
    /\ tag' = built.instance
    /\ UNCHANGED built
    /\ UNCHANGED <<listVars, testVars>>

UpdateTag ==
    /\ tag # <<>>
    /\ built.ok /\ built.schema = "UpdateTagSchema"
    /\ tag' = [f \in DOMAIN tag |->
                 IF f \in DOMAIN built.instance THEN built.instance[f] ELSE tag[f]]
    /\ UNCHANGED built
    /\ UNCHANGED <<listVars, testVars>>

TestIdle ==
    /\ phase = "off" /\ DATABASES = <<>> /\ base = <<>>
    /\ overridden = FALSE /\ steps = 0 /\ changed = FALSE

\* the outcome is dropped: a validation error went back to the client, or the
\* instance has been used
Discard ==
    /\ built # NotBuilt
    /\ built' = NotBuilt
    /\ UNCHANGED tag
    /\ UNCHANGED <<listVars, testVars>>

ListIdle ==
    /\ User = {} /\ Conversation = <<>> /\ Message = <<>>
    /\ pc = "off" /\ request = NoRequest /\ entered = "none" /\ response = NoResponse

TagInit == tag = <<>> /\ built = NotBuilt /\ ListIdle /\ TestIdle
TagNext == Build \/ CreateTag \/ UpdateTag \/ Discard
TagSpec == TagInit /\ [][TagNext]_vars

(***************************************************************************)
(* The test database fixture                                               *)
(***************************************************************************)
DatabaseDefinitions ==
    { [ENGINE |-> "django.db.backends.postgresql", NAME |-> "test", USER |-> "postgres",
       PASSWORD |-> "postgres", HOST |-> "localhost", PORT |-> 5432],
      [ENGINE |-> "django.db.backends.postgresql", NAME |-> "chat", USER |-> "chat",
       PASSWORD |-> "secret", HOST |-> "db", PORT |-> 5432],
      [ENGINE |-> "django.db.backends.sqlite3", NAME |-> "db.sqlite3", USER |-> "",
       PASSWORD |-> "", HOST |-> "", PORT |-> 0] }
\* the values settings.DATABASES can be given
DatabaseSettings ==
    [{"default"} -> DatabaseDefinitions] \cup [{"default", "replica"} -> DatabaseDefinitions]

\* @pytest.fixture(autouse=True)  (faulty variant: a fixture tests must ask for)
autouse_off == FALSE
autouse == TRUE

\* the value use_test_database assigns to settings.DATABASES
use_test_database ==
    [default |-> [ENGINE |-> "django.db.backends.postgresql", NAME |-> "test",
                  USER |-> "postgres", PASSWORD |-> "postgres", HOST |-> "localhost",
                  PORT |-> 5432]]

\* test setup: the fixtures of the test run, use_test_database among them when
\* it is autouse or the test asks for it; it writes through the settings
\* fixture, which overrides the settings until the test's teardown
StartTest ==
    /\ phase = "between"
    /\ \E requested \in BOOLEAN :
         IF autouse \/ requested
           THEN DATABASES' = use_test_database /\ overridden' = TRUE
           ELSE UNCHANGED <<DATABASES, overridden>>
    /\ phase' = "test"
    /\ steps' = 0
    /\ UNCHANGED <<base, changed>>
    /\ UNCHANGED <<listVars, tagVars>>

\* the test's body writes settings.DATABASES: through the settings fixture (one
\* more override), or on django.conf.settings itself, where the write lands in
\* the active override when there is one and in the base settings otherwise
TestBody ==
    /\ phase = "test"
    /\ steps < MaxBodySteps
    /\ \E d \in DatabaseSettings, through \in {"fixture", "direct"} :
         /\ DATABASES' = d
         /\ overridden' = (overridden \/ through = "fixture")
         /\ base' = IF through = "direct" /\ ~overridden THEN d ELSE base
    /\ steps' = steps + 1
    /\ changed' = TRUE
    /\ UNCHANGED phase
    /\ UNCHANGED <<listVars, tagVars>>

\* teardown: the settings fixture undoes every override
EndTest ==
    /\ phase = "test"
    /\ DATABASES' = base
    /\ overridden' = FALSE
    /\ phase' = "between"
    /\ steps' = 0
    /\ UNCHANGED <<base, changed>>
    /\ UNCHANGED <<listVars, tagVars>>

TestInit ==
    /\ phase = "between"
    /\ base \in DatabaseSettings
    /\ DATABASES = base
    /\ overridden = FALSE
    /\ steps = 0
    /\ changed = FALSE
    /\ ListIdle
    /\ tag = <<>> /\ built = NotBuilt
TestNext == StartTest \/ TestBody \/ EndTest
TestSpec == TestInit /\ [][TestNext]_vars

(***************************************************************************)
(* The list endpoints' specification                                       *)
(***************************************************************************)
Init ==
    /\ User = {}
    /\ Conversation = <<>>
    /\ Message = <<>>
    /\ pc = "idle"
    /\ request = NoRequest
    /\ entered = "none"
    /\ response = NoResponse
    /\ tag = <<>> /\ built = NotBuilt
    /\ TestIdle

Next ==
    \/ CreateUser
    \/ CreateConversation
    \/ CreateMessage
    \/ Receive
    \/ Authenticate
    \/ list_my_conversations
    \/ list_my_messages
    \/ Respond

Spec == Init /\ [][Next]_vars

(***************************************************************************)
(* Properties of the list endpoints (checked under Spec)                   *)
(***************************************************************************)
\* a step in which the request in flight runs a handler body
ConversationsHandled == entered = "none" /\ entered' = "list_my_conversations"
MessagesHandled == entered = "none" /\ entered' = "list_my_messages"

\* C1: list_my_conversations as U answers with exactly the conversations whose
\* owner is U: all of U's, and none of any other user's.
C1_ExactlyOwnConversations ==
    [][ConversationsHandled =>
         /\ request.user \in User
         /\ Range(response'.body) = {c \in Range(Conversation) : c.owner = request.user}
         /\ \A c \in Range(response'.body) :
              \A u2 \in User \ {request.user} : c.owner # u2]_vars

C1_Witness ==
    /\ pc = "done" /\ entered = "list_my_conversations"
    /\ Cardinality(Range(response.body)) = 2
    /\ \E c \in Range(Conversation) : c.owner \in User \ {request.user}

\* C2: list_my_messages as U answers with exactly the messages whose parent
\* conversation is owned by U.
C2_ExactlyOwnMessages ==
    [][MessagesHandled =>
         /\ request.user \in User
         /\ Range(response'.body) =
              {m \in Range(Message) :
                 \E c \in Range(Conversation) :
                    c.id = m.conversation /\ c.owner = request.user}
         /\ \A m \in Range(response'.body) :
              \A c \in Range(Conversation) :
                 c.id = m.conversation => c.owner = request.user]_vars

C2_Witness ==
    /\ pc = "done" /\ entered = "list_my_messages"
    /\ Cardinality(Range(response.body)) = 2
    /\ \E m \in Range(Message) : m \notin Range(response.body)

\* C3: a caller who owns no conversation gets 200 with the empty sequence from
\* list_my_conversations, and one who owns no conversation holding a message
\* gets 200 with the empty sequence from list_my_messages; never an error.
C3_EmptyIsNotAnError ==
    [][/\ (pc = "authenticated" /\ pc' = "done" /\ request.endpoint = "conversations"
             /\ ~ \E c \in Range(Conversation) : c.owner = request.user)
          => response' = [status |-> OK, body |-> <<>>]
       /\ (pc = "authenticated" /\ pc' = "done" /\ request.endpoint = "messages"
             /\ ~ \E m \in Range(Message) : \E c \in Range(Conversation) :
                     c.id = m.conversation /\ c.owner = request.user)
          => response' = [status |-> OK, body |-> <<>>]]_vars

C3_Witness ==
    /\ pc = "done" /\ entered = "list_my_conversations"
    /\ response = [status |-> OK, body |-> <<>>]
    /\ Conversation # <<>>

\* C4: a handler body is entered only for a request whose caller is an
\* authenticated user, and a request without valid credentials ends in an
\* authentication failure with no handler entered.
C4_OnlyAuthenticatedReachHandlers ==
    /\ entered # "none" =>
         /\ request.credentials \in User
         /\ request.user = request.credentials
    /\ (pc = "done" /\ request.credentials \notin User) =>
         /\ entered = "none"
         /\ response = [status |-> Unauthorized, body |-> <<>>]

C4_Witness ==
    /\ pc = "done" /\ request.credentials \notin User
    /\ response.status = Unauthorized
    /\ Conversation # <<>>

\* C8: a list call changes nothing in the store: users, conversations, messages,
\* owners and parents are the same after it.
C8_ListCallsAreReadOnly ==
    [][(ConversationsHandled \/ MessagesHandled)
         => /\ User' = User
            /\ Conversation' = Conversation
            /\ Message' = Message]_vars

C8_Witness ==
    /\ pc = "done" /\ entered = "list_my_messages"
    /\ Len(Message) = MaxMessages /\ Len(Conversation) = MaxConversations
    /\ response.body = <<>>

\* C9: the answer depends on the authenticated identity and the store only: the
\* same request with any other client-supplied scope gets the same answer.
C9_ClientScopeIsIgnored ==
    [][/\ ConversationsHandled =>
            \A s \in ClientScope :
               response'.body = ConversationQuery([request EXCEPT !.scope = s])
       /\ MessagesHandled =>
            \A s \in ClientScope :
               response'.body = MessageQuery([request EXCEPT !.scope = s])]_vars

C9_Witness ==
    /\ pc = "done" /\ entered = "list_my_conversations"
    /\ request.scope \in User \ {request.user}
    /\ response.body # <<>>
    /\ \E c \in Range(Conversation) : c.owner = request.scope

\* C10: in the store state a list call runs in, a message is in the caller's
\* message list exactly when its parent conversation is in the caller's
\* conversation list; and every message and every conversation is listed for
\* exactly one user.
C10_EndpointsAgree ==
    [][(ConversationsHandled \/ MessagesHandled) =>
         LET As(u) == [endpoint |-> "any", credentials |-> u, scope |-> NoUser, user |-> u]
             conversations == IF ConversationsHandled THEN response'.body
                                                      ELSE ConversationQuery(request)
             messages == IF MessagesHandled THEN response'.body
                                            ELSE MessageQuery(request)
             Convs == [u \in User |-> Range(ConversationQuery(As(u)))]
             Msgs == [u \in User |-> Range(MessageQuery(As(u)))]
         IN  /\ \A m \in Range(Message) :
                  (m \in Range(messages))
                     <=> (\E c \in Range(conversations) : c.id = m.conversation)
             /\ \A m \in Range(Message) : Cardinality({u \in User : m \in Msgs[u]}) = 1
             /\ \A c \in Range(Conversation) : Cardinality({u \in User : c \in Convs[u]}) = 1
       ]_vars

C10_Witness ==
    /\ pc = "done" /\ entered = "list_my_messages"
    /\ response.body # <<>>
    /\ Cardinality({c.owner : c \in Range(Conversation)}) = 2
    /\ Cardinality({OwnerOfConversation(m.conversation) : m \in Range(Message)}) = 2

(***************************************************************************)
(* Properties of the tag schemas (checked under TagSpec)                   *)
(***************************************************************************)
\* C5: an update payload never carries an id: whatever the input, one that
\* supplies an id included, the construction is rejected or yields title and
\* color only; and no update of a tag changes the tag's id.
C5_UpdateNeverCarriesId ==
    [][/\ (built'.schema = "UpdateTagSchema" /\ built'.ok)
            => DOMAIN built'.instance = {"title", "color"}
       /\ (tag # <<>> /\ tag' # tag) => tag'.id = tag.id]_vars

\* an update built from an input that names another id has been applied
C5_Witness ==
    /\ built.schema = "UpdateTagSchema" /\ built.ok
    /\ "id" \in DOMAIN built.input
    /\ built.input["id"].t = "str" /\ IsUUIDString(built.input["id"].v)
    /\ tag # <<>>
    /\ ParseUUID(built.input["id"].v) # tag.id
    /\ tag.title = built.instance["title"] /\ tag.color = built.instance["color"]
    /\ tag.color = <<"f", "f", "f", "f", "0", "0">>

\* C6: a construction of any tag shape whose color is not a valid colour, or
\* of TagSchema or NewTagSchema whose id is not a well-formed identifier, is a
\* validation error and yields no instance; a construction succeeds only when
\* every declared field is there and valid.
C6_InvalidFieldsFailConstruction ==
    LET given == built.input
        BadColor == "color" \in DOMAIN given
                      /\ ~(given["color"].t = "str" /\ IsColorString(given["color"].v))
        BadId == "id" \in DOMAIN given
                      /\ ~(given["id"].t = "str" /\ IsUUIDString(given["id"].v))
        GoodField(f) ==
            /\ f \in DOMAIN given
            /\ given[f].t = "str"
            /\ f = "color" => IsColorString(given[f].v)
            /\ f = "id" => IsUUIDString(given[f].v)
    IN  built.schema \in SchemaNames =>
          /\ BadColor => (~built.ok /\ built.instance = <<>>)
          /\ (BadId /\ built.schema \in {"TagSchema", "NewTagSchema"})
               => (~built.ok /\ built.instance = <<>>)
          /\ built.ok =>
               /\ GoodField("title") /\ GoodField("color")
               /\ built.schema \in {"TagSchema", "NewTagSchema"} => GoodField("id")
          /\ ~built.ok => built.instance = <<>>

C6_Witness ==
    /\ built.schema = "TagSchema" /\ ~built.ok /\ built.instance = <<>>
    /\ DOMAIN built.input = {"id", "title", "color"}
    /\ built.input["id"].t = "str" /\ IsUUIDString(built.input["id"].v)
    /\ built.input["title"].t = "str"
    /\ built.input["color"] = [t |-> "str", v |-> <<"#", "g", "g", "g">>]

(***************************************************************************)
(* Properties of the test database fixture (checked under TestSpec)        *)
(***************************************************************************)
\* C7: every test starts with settings.DATABASES holding the one fixed test
\* database definition, whether or not the test asked for the fixture and
\* whatever earlier tests wrote to the settings.
C7_EveryTestStartsOnTestDatabase ==
    (phase = "test" /\ steps = 0) =>
        /\ DOMAIN DATABASES = {"default"}
        /\ DATABASES["default"] =
             [ENGINE |-> "django.db.backends.postgresql", NAME |-> "test",
              USER |-> "postgres", PASSWORD |-> "postgres", HOST |-> "localhost",
              PORT |-> 5432]

C7_Witness ==
    /\ phase = "test" /\ steps = 0 /\ changed
    /\ DOMAIN base = {"default", "replica"}
    /\ DATABASES # base

====
